---- MODULE Spec2Model ----
(***************************************************************************)
(* Model of library_messages.c: the bridge that forwards the diagnostics   *)
(* of ALSA and JACK to one logging callback.                               *)
(*                                                                         *)
(* Strings are sequences of bytes (ASCII codes, 1..255); a C string in a   *)
(* buffer ends at its first 0 byte.  The host thread executes              *)
(* set_message_handler one statement at a time; library threads raise      *)
(* diagnostics through the handler slots of the two libraries.  Accesses   *)
(* to rust_log and to the handler slots are single pointer-sized loads and *)
(* stores, executed in program order and interleaved arbitrarily.          *)
(* Formatting is modelled for renderings that succeed: the directives %s,  *)
(* %d and %% over bytes other than 0.                                      *)
(*                                                                         *)
(* rust_log   the global of line 6 (NULL until the first store)            *)
(* callback   the parameter of the current or most recent registration     *)
(* rpc        0, or the index in Order of the statement of                 *)
(*            set_message_handler the host thread executes next            *)
(* handlers   the handler slots of the two libraries                       *)
(* pc, h      per library thread: its position and the adapter it runs     *)
(* param      per library thread: the arguments of the adapter it runs     *)
(*            (fmt and va for alsa_error_handler, msg for the jack ones)   *)
(* msg        per invocation: the bytes written so far to char msg[len]    *)
(* out        per invocation: the calls made through rust_log so far       *)
(***************************************************************************)
EXTENDS Integers, Sequences, FiniteSets, TLC

VARIABLES rust_log, callback, rpc, handlers, pc, h, param, msg, out

vars == <<rust_log, callback, rpc, handlers, pc, h, param, msg, out>>

(* ------------------------------ bounds --------------------------------- *)

NThreads == 3
LongLen == 2000

(* --------------------------- program constants ------------------------- *)

len == 1024

NULL == 0
Callbacks == {1, 2}
Threads == 1 .. NThreads
Slots == {"snd_lib_error", "jack_info", "jack_error"}
Default == "default"

AlsaSeverity == 3
JackErrorSeverity == 3
JackInfoSeverityAsError == JackErrorSeverity
JackInfoSeverity == 2
AlsaTag == "yotredash::alsa"
JackTag == "yotredash::jack"

(* ------------------------------ strings -------------------------------- *)

Min(a, b) == IF a < b THEN a ELSE b

Fill(n) == [i \in 1 .. n |-> 97 + (i % 26)]

FailedFmt == <<102, 97, 105, 108, 101, 100, 58, 32, 37, 115>>
DeviceBusy == <<100, 101, 118, 105, 99, 101, 32, 98, 117, 115, 121>>
ErrFmt == <<101, 114, 114, 32, 37, 100, 32, 37, 37>>
ClientRegistered ==
  <<99, 108, 105, 101, 110, 116, 32, 114, 101, 103, 105, 115, 116, 101, 114, 101, 100>>

StrArg(s) == [s |-> s, d |-> 0]
IntArg(d) == [s |-> <<>>, d |-> d]

RECURSIVE Digits(_)
Digits(n) == IF n < 10 THEN <<48 + n>> ELSE Digits(n \div 10) \o <<48 + (n % 10)>>

Decimal(n) == IF n < 0 THEN <<45>> \o Digits(-n) ELSE Digits(n)

RECURSIVE RenderFrom(_, _, _, _)
RenderFrom(fmt, va, i, k) ==
  IF i > Len(fmt) THEN <<>>
  ELSE IF fmt[i] = 37 /\ i < Len(fmt)
       THEN IF fmt[i + 1] = 115
            THEN va[k].s \o RenderFrom(fmt, va, i + 2, k + 1)
            ELSE IF fmt[i + 1] = 100
                 THEN Decimal(va[k].d) \o RenderFrom(fmt, va, i + 2, k + 1)
                 ELSE <<fmt[i + 1]>> \o RenderFrom(fmt, va, i + 2, k)
       ELSE <<fmt[i]>> \o RenderFrom(fmt, va, i + 1, k)

Render(fmt, va) == RenderFrom(fmt, va, 1, 1)

VsprintfUnbounded(size, fmt, va) == Render(fmt, va) \o <<0>>

(* The bytes vsnprintf writes: at most size - 1 bytes of the rendering, then 0. *)
Vsnprintf(size, fmt, va) ==
  IF size = 0 THEN <<>>
  ELSE SubSeq(Render(fmt, va), 1, Min(Len(Render(fmt, va)), size - 1)) \o <<0>>

RECURSIVE FirstNul(_, _, _)
FirstNul(buf, lo, hi) ==
  IF lo > hi THEN 0
  ELSE IF lo = hi THEN (IF buf[lo] = 0 THEN lo ELSE 0)
  ELSE LET mid == (lo + hi) \div 2
           l == FirstNul(buf, lo, mid)
       IN IF l # 0 THEN l ELSE FirstNul(buf, mid + 1, hi)

StrLen(buf) ==
  IF FirstNul(buf, 1, Len(buf)) = 0 THEN Len(buf) ELSE FirstNul(buf, 1, Len(buf)) - 1

CStr(buf) == SubSeq(buf, 1, StrLen(buf))

(* ------------------------------- inputs -------------------------------- *)

NoParam == [fmt |-> <<>>, va |-> <<>>, msg |-> <<>>]

AlsaShort ==
  { [fmt |-> FailedFmt, va |-> <<StrArg(DeviceBusy)>>, msg |-> <<>>],
    [fmt |-> ErrFmt, va |-> <<IntArg(-42)>>, msg |-> <<>>] }

AlsaAll ==
  AlsaShort \cup
  { [fmt |-> FailedFmt, va |-> <<StrArg(Fill(n - 8))>>, msg |-> <<>>] :
      n \in {len - 2, len - 1, len, LongLen} }

JackShort == { [fmt |-> <<>>, va |-> <<>>, msg |-> ClientRegistered] }

JackAll ==
  JackShort \cup
  { [fmt |-> <<>>, va |-> <<>>, msg |-> Fill(n)] : n \in {len - 1, len, LongLen} }

(* ------------------------------- state --------------------------------- *)

Installed ==
  [s \in Slots |-> CASE s = "snd_lib_error" -> "alsa_error_handler"
                     [] s = "jack_info" -> "jack_info_handler"
                     [] s = "jack_error" -> "jack_error_handler"]

Init ==
  /\ rust_log = NULL
  /\ callback = NULL
  /\ rpc = 0
  /\ handlers = [s \in Slots |-> Default]
  /\ pc = [t \in Threads |-> "idle"]
  /\ h = [t \in Threads |-> "none"]
  /\ param = [t \in Threads |-> NoParam]
  /\ msg = [t \in Threads |-> <<>>]
  /\ out = [t \in Threads |-> <<>>]

threadVars == <<pc, h, param, msg, out>>

(* -------------------------- set_message_handler ------------------------ *)

OrderInstallFirst == <<"l38", "l39", "l40", "l36">>

Order == <<"l36", "l38", "l39", "l40">>

Advance == rpc' = IF rpc = Len(Order) THEN 0 ELSE rpc + 1

set_message_handler(cb) ==
  /\ rpc = 0
  /\ rpc' = 1
  /\ callback' = cb
  /\ UNCHANGED <<rust_log, handlers, threadVars>>

StoreCallbackOnce ==
  /\ rpc # 0 /\ Order[rpc] = "l36"
  /\ rust_log' = IF rust_log = NULL THEN callback ELSE rust_log
  /\ Advance
  /\ UNCHANGED <<callback, handlers, threadVars>>

StoreCallback ==
  /\ rpc # 0 /\ Order[rpc] = "l36"
  /\ rust_log' = callback
  /\ Advance
  /\ UNCHANGED <<callback, handlers, threadVars>>

snd_lib_error_set_handler ==
  /\ rpc # 0 /\ Order[rpc] = "l38"
  /\ handlers' = [handlers EXCEPT !["snd_lib_error"] = "alsa_error_handler"]
  /\ Advance
  /\ UNCHANGED <<rust_log, callback, threadVars>>

jack_set_info_function_swapped ==
  /\ rpc # 0 /\ Order[rpc] = "l39"
  /\ handlers' = [handlers EXCEPT !["jack_info"] = "jack_error_handler"]
  /\ Advance
  /\ UNCHANGED <<rust_log, callback, threadVars>>

jack_set_info_function ==
  /\ rpc # 0 /\ Order[rpc] = "l39"
  /\ handlers' = [handlers EXCEPT !["jack_info"] = "jack_info_handler"]
  /\ Advance
  /\ UNCHANGED <<rust_log, callback, threadVars>>

jack_set_error_function ==
  /\ rpc # 0 /\ Order[rpc] = "l40"
  /\ handlers' = [handlers EXCEPT !["jack_error"] = "jack_error_handler"]
  /\ Advance
  /\ UNCHANGED <<rust_log, callback, threadVars>>

(* ------------------------------ adapters ------------------------------- *)

(* A library raises a diagnostic on thread t through slot s. *)
Raise(t, s, p) ==
  /\ pc[t] = "idle"
  /\ handlers[s] # Default
  /\ h' = [h EXCEPT ![t] = handlers[s]]
  /\ pc' = [pc EXCEPT ![t] = IF handlers[s] = "alsa_error_handler" THEN "l21" ELSE "call"]
  /\ param' = [param EXCEPT ![t] = p]
  /\ UNCHANGED <<rust_log, callback, rpc, handlers, msg, out>>

MsgBufStatic(t) == 1

MsgBuf(t) == t

alsa_vsnprintf(t) ==
  /\ pc[t] = "l21"
  /\ msg' = [msg EXCEPT ![MsgBuf(t)] = Vsnprintf(len - 1, param[t].fmt, param[t].va)]
  /\ pc' = [pc EXCEPT ![t] = "call"]
  /\ UNCHANGED <<rust_log, callback, rpc, handlers, h, param, out>>

(* The call through rust_log; a call through a null pointer faults. *)
LogCall(t, sev, tag, m) ==
  IF rust_log = NULL
  THEN /\ pc' = [pc EXCEPT ![t] = "fault"]
       /\ out' = out
  ELSE /\ pc' = [pc EXCEPT ![t] = "ret"]
       /\ out' = [out EXCEPT ![t] = Append(@, [cb |-> rust_log, sev |-> sev,
                                              tag |-> tag, msg |-> m])]

alsa_error_handler_oneshot(t) ==
  /\ pc[t] = "call" /\ h[t] = "alsa_error_handler"
  /\ LogCall(t, AlsaSeverity, AlsaTag, CStr(msg[MsgBuf(t)]))
  /\ rust_log' = NULL
  /\ UNCHANGED <<callback, rpc, handlers, h, param, msg>>

alsa_error_handler(t) ==
  /\ pc[t] = "call" /\ h[t] = "alsa_error_handler"
  /\ LogCall(t, AlsaSeverity, AlsaTag, CStr(msg[MsgBuf(t)]))
  /\ UNCHANGED <<rust_log, callback, rpc, handlers, h, param, msg>>

jack_info_handler_buffered(t) ==
  /\ pc[t] = "call" /\ h[t] = "jack_info_handler"
  /\ LogCall(t, JackInfoSeverity, JackTag,
             SubSeq(param[t].msg, 1, Min(Len(param[t].msg), len - 1)))
  /\ UNCHANGED <<rust_log, callback, rpc, handlers, h, param, msg>>

jack_info_handler(t) ==
  /\ pc[t] = "call" /\ h[t] = "jack_info_handler"
  /\ LogCall(t, JackInfoSeverity, JackTag, param[t].msg)
  /\ UNCHANGED <<rust_log, callback, rpc, handlers, h, param, msg>>

jack_error_handler(t) ==
  /\ pc[t] = "call" /\ h[t] = "jack_error_handler"
  /\ LogCall(t, JackErrorSeverity, JackTag, param[t].msg)
  /\ UNCHANGED <<rust_log, callback, rpc, handlers, h, param, msg>>

Return(t) ==
  /\ pc[t] = "ret"
  /\ pc' = [pc EXCEPT ![t] = "idle"]
  /\ h' = [h EXCEPT ![t] = "none"]
  /\ param' = [param EXCEPT ![t] = NoParam]
  /\ msg' = [msg EXCEPT ![MsgBuf(t)] = <<>>]
  /\ out' = [out EXCEPT ![t] = <<>>]
  /\ UNCHANGED <<rust_log, callback, rpc, handlers>>

(* --------------------------- specifications ---------------------------- *)

Register ==
  \/ \E cb \in Callbacks : set_message_handler(cb)
  \/ StoreCallback
  \/ snd_lib_error_set_handler
  \/ jack_set_info_function
  \/ jack_set_error_function

Adapter(t) ==
  \/ alsa_vsnprintf(t)
  \/ alsa_error_handler(t)
  \/ jack_info_handler(t)
  \/ jack_error_handler(t)
  \/ Return(t)

Next ==
  \/ Register
  \/ \E t \in Threads :
       \/ \E p \in AlsaShort : Raise(t, "snd_lib_error", p)
       \/ \E s \in {"jack_info", "jack_error"} : \E p \in JackShort : Raise(t, s, p)
       \/ Adapter(t)

Spec == Init /\ [][Next]_vars

NextFmt ==
  \/ Register
  \/ \E p \in AlsaAll : Raise(1, "snd_lib_error", p)
  \/ \E s \in {"jack_info", "jack_error"} : \E p \in JackAll : Raise(1, s, p)
  \/ Adapter(1)

SpecFmt == Init /\ [][NextFmt]_vars

(* ------------------------------ properties ----------------------------- *)

InAdapter(t, a) == pc[t] # "idle" /\ h[t] = a

Returned(t, a) == pc[t] = "ret" /\ h[t] = a /\ Len(out[t]) = 1

Rendering(t) == Render(param[t].fmt, param[t].va)

Registered == rust_log # NULL /\ handlers = Installed

(* C1: when the full rendering is longer than 1023 bytes, the message     *)
(* alsa_error_handler passes to the callback is exactly the first 1023    *)
(* bytes of the rendering.                                                 *)
C1_TruncatedTo1023 ==
  \A t \in Threads :
    (pc[t] = "ret" /\ h[t] = "alsa_error_handler" /\ Len(Rendering(t)) > 1023)
      => /\ Len(out[t]) = 1
         /\ out[t][1].msg = SubSeq(Rendering(t), 1, 1023)

(* C2: when the full rendering is at most 1023 bytes long, the message    *)
(* alsa_error_handler passes to the callback is the full rendering.       *)
C2_CompleteUpTo1023 ==
  \A t \in Threads :
    (pc[t] = "ret" /\ h[t] = "alsa_error_handler" /\ Len(Rendering(t)) <= 1023)
      => /\ Len(out[t]) = 1
         /\ out[t][1].msg = Rendering(t)

(* C3: every adapter forwards its own fixed (severity, tag) pair:         *)
(* alsa_error_handler (3, "yotredash::alsa"), jack_info_handler           *)
(* (2, "yotredash::jack"), jack_error_handler (3, "yotredash::jack").     *)
C3_FixedSeverityAndTag ==
  \A t \in Threads :
    pc[t] = "ret" =>
      /\ Len(out[t]) = 1
      /\ h[t] = "alsa_error_handler" =>
           out[t][1].sev = 3 /\ out[t][1].tag = "yotredash::alsa"
      /\ h[t] = "jack_info_handler" =>
           out[t][1].sev = 2 /\ out[t][1].tag = "yotredash::jack"
      /\ h[t] = "jack_error_handler" =>
           out[t][1].sev = 3 /\ out[t][1].tag = "yotredash::jack"

C3_Witness ==
  \E t1, t2, t3 \in Threads :
    /\ Returned(t1, "alsa_error_handler")
    /\ Returned(t2, "jack_info_handler")
    /\ Returned(t3, "jack_error_handler")

(* C4: when a call set_message_handler(cb) has returned, rust_log is cb   *)
(* and each of the three handler slots holds its matching adapter.        *)
C4_RegistrationInstallsAll ==
  (rpc = 0 /\ callback # NULL) =>
    /\ rust_log = callback
    /\ handlers["snd_lib_error"] = "alsa_error_handler"
    /\ handlers["jack_info"] = "jack_info_handler"
    /\ handlers["jack_error"] = "jack_error_handler"

C4_Witness == rpc = 0 /\ callback = 2 /\ rust_log = 2 /\ \A s \in Slots : handlers[s] # Default

(* C5: a repeated registration leaves the handler slots as a single       *)
(* registration left them, its store makes rust_log the argument of the   *)
(* most recent call, and a diagnostic delivered while no registration is  *)
(* in flight goes to the argument of the most recent call.                *)
C5_LastRegistrationWins ==
  [][ /\ Registered => handlers' = handlers
      /\ (rpc # 0 /\ rpc' = 0) => (rust_log' = callback /\ handlers' = Installed)
      /\ \A t \in Threads :
           (pc[t] = "call" /\ pc'[t] = "ret" /\ rpc = 0) =>
             (Len(out'[t]) = 1 /\ out'[t][1].cb = callback) ]_vars

C5_Witness ==
  /\ rpc = 0 /\ rust_log = 2 /\ handlers = Installed
  /\ \E t1, t2 \in Threads :
       /\ pc[t1] = "ret" /\ Len(out[t1]) = 1 /\ out[t1][1].cb = 1
       /\ pc[t2] = "ret" /\ Len(out[t2]) = 1 /\ out[t2][1].cb = 2

(* C6: once registration has completed, rust_log stays non-null and the   *)
(* three adapters stay installed; a step of an adapter writes neither     *)
(* rust_log nor a handler slot.                                           *)
C6_NoWayBackToUnregistered ==
  [][ /\ Registered => Registered'
      /\ (rpc' = rpc) => (rust_log' = rust_log /\ handlers' = handlers) ]_vars

C6_Witness ==
  /\ Registered
  /\ rpc # 0 /\ callback # rust_log
  /\ \E t \in Threads : Returned(t, "alsa_error_handler")

(* C7: after registration, concurrent invocations of the adapters each    *)
(* make exactly one call of the callback by the time they return, none    *)
(* before, and that call carries the invocation's own severity, tag and   *)
(* message.                                                                *)
C7_OneCallOwnTriple ==
  Registered =>
    \A t \in Threads :
      /\ pc[t] \in {"l21", "call"} => out[t] = <<>>
      /\ pc[t] \notin {"idle", "l21", "call", "ret"} => FALSE
      /\ pc[t] = "ret" =>
           /\ Len(out[t]) = 1
           /\ out[t][1].cb \in Callbacks
           /\ h[t] = "alsa_error_handler" =>
                /\ out[t][1].sev = 3 /\ out[t][1].tag = "yotredash::alsa"
                /\ out[t][1].msg = Rendering(t)
           /\ h[t] = "jack_info_handler" =>
                /\ out[t][1].sev = 2 /\ out[t][1].tag = "yotredash::jack"
                /\ out[t][1].msg = param[t].msg
           /\ h[t] = "jack_error_handler" =>
                /\ out[t][1].sev = 3 /\ out[t][1].tag = "yotredash::jack"
                /\ out[t][1].msg = param[t].msg

C7_Witness ==
  /\ Registered
  /\ \E t1, t2, t3 \in Threads :
       /\ Returned(t1, "alsa_error_handler")
       /\ pc[t2] = "call" /\ h[t2] = "alsa_error_handler" /\ param[t2] # param[t1]
       /\ Returned(t3, "jack_info_handler")

(* C8: jack_info_handler and jack_error_handler pass the message they     *)
(* receive to the callback unchanged, whatever its length.                *)
C8_JackPassThrough ==
  \A t \in Threads :
    (pc[t] = "ret" /\ h[t] \in {"jack_info_handler", "jack_error_handler"}) =>
      /\ Len(out[t]) = 1
      /\ out[t][1].msg = param[t].msg

C8_Witness ==
  \E t \in Threads :
    /\ Returned(t, "jack_info_handler")
    /\ Len(param[t].msg) = LongLen
    /\ Len(out[t][1].msg) > 1023

(* C9: alsa_error_handler writes at most 1024 bytes, terminator included, *)
(* into its buffer, and the message it hands to the callback ends inside  *)
(* the buffer (its length is at most 1023).                               *)
C9_NoBufferOverflow ==
  \A t \in Threads :
    /\ Len(msg[t]) <= 1024
    /\ InAdapter(t, "alsa_error_handler") /\ pc[t] # "l21" =>
         \E i \in 1 .. 1024 : i <= Len(msg[t]) /\ msg[t][i] = 0
    /\ Returned(t, "alsa_error_handler") => Len(out[t][1].msg) <= 1023

C9_Witness ==
  \E t \in Threads :
    /\ Returned(t, "alsa_error_handler")
    /\ Len(Rendering(t)) = LongLen
    /\ Len(msg[t]) > 1000

(* C10: set_message_handler stores rust_log before it installs a handler, *)
(* so no handler slot is filled and no adapter runs while rust_log is     *)
(* still null.                                                             *)
C10_CallbackStoredBeforeInstall ==
  /\ (\E s \in Slots : handlers[s] # Default) => rust_log # NULL
  /\ \A t \in Threads : pc[t] # "idle" => (rust_log # NULL /\ pc[t] # "fault")

C10_Witness ==
  /\ rpc # 0
  /\ handlers["jack_error"] = Default
  /\ \E t \in Threads : Returned(t, "alsa_error_handler")

====
